---- MODULE Spec2Model ----
(***************************************************************************)
(* AdditionDataset of play_math.ipynb: the universe of n-digit addition    *)
(* problems, its seeded permutation, the train/test split, and the item    *)
(* query that renders one problem as digit tokens with a masked target.    *)
(*                                                                         *)
(* A notebook session is modelled: cells may run in any order, so          *)
(* set_seed, the constructor, len() and indexing interleave freely.        *)
(***************************************************************************)
EXTENDS Integers, Sequences, FiniteSets, TLC

(* ------------------------------ bounds -------------------------------- *)

\* datasets one session keeps
MaxDatasets == 3
\* the generator's output function is not known here: variants 0..MaxSalt
MaxSalt == 1

(* ------------------------- program constants -------------------------- *)

\* the notebook's digit width. Sessions construct every width up to it; the
\* universe of a width n has 100^n indices, each of them enumerated here.
ndigit == 2
vocab_size == 10
RandomSeed == 1337
TestCap == 1000
IgnoreIndex == 0 - 100
GlobalSeed == 42

Splits == {"train", "test"}
\* a width below zero makes 10**ndigit a float
DigitWidths == (0 - 1)..ndigit

(* ------------------------------ state --------------------------------- *)

VARIABLES
    salt,       \* which output function the Mersenne Twister stand-in has
    gstate,     \* state of the process-wide generator (set_seed)
    datasets,   \* the AdditionDataset objects constructed so far
    ret         \* what the last call returned or raised

vars == <<salt, gstate, datasets, ret>>

(* ------------------------- Python primitives -------------------------- *)

Min(p, q) == IF p <= q THEN p ELSE q
Max(p, q) == IF p >= q THEN p ELSE q

\* the value of a Python expression that is a float with a fractional part
Fractional == 0 - 1

\* 10**n: an int for n >= 0, the float 10^n < 1 for n < 0
Pow10Strict(n) == IF n < 1 THEN Fractional ELSE 10 ^ n
Pow10(n) == IF n < 0 THEN Fractional ELSE 10 ^ n

\* v**2
Square(v) == IF v = Fractional THEN Fractional ELSE v * v

\* int(num*0.2): the double 0.2 lies just above 1/5, and for num < 2^31 the
\* rounded product truncates to floor(num/5)
IntOfFifth(v) == (v * 2) \div 10

\* seq[lo:hi] with Python's clamping and negative bounds (0-based, hi excluded)
SliceBound(m, len) == IF m < 0 THEN Max(len + m, 0) ELSE Min(m, len)
PySlice(seq, lo, hi) ==
    SubSeq(seq, SliceBound(lo, Len(seq)) + 1, SliceBound(hi, Len(seq)))

\* numpy's a[k] for an array of `size` elements: the 0-based place, or -1 for
\* the IndexError
ArrayPlaceNoWrap(k, size) == IF 0 <= k /\ k < size THEN k ELSE 0 - 1
ArrayPlace(k, size) ==
    IF 0 <= k /\ k < size THEN k
    ELSE IF 0 - size <= k /\ k < 0 THEN k + size
    ELSE 0 - 1

\* '%0wd' % v for v >= 0: decimal digits, zero-padded to at least w characters
DigitChar == <<"0", "1", "2", "3", "4", "5", "6", "7", "8", "9">>
RECURSIVE DecimalString(_)
DecimalString(v) ==
    IF v < 10 THEN <<DigitChar[v + 1]>>
    ELSE Append(DecimalString(v \div 10), DigitChar[(v % 10) + 1])
RECURSIVE ZeroChars(_)
ZeroChars(w) == IF w <= 0 THEN <<>> ELSE <<"0">> \o ZeroChars(w - 1)
FormatUnpadded(w, v) == DecimalString(v)
FormatZeroPadded(w, v) ==
    LET s == DecimalString(v) IN ZeroChars(w - Len(s)) \o s

\* int(s) for a one-character string
CharValue ==
    [s \in {DigitChar[j] : j \in 1..10} |-> CHOOSE d \in 0..9 : DigitChar[d + 1] = s]
IntOfChar(s) == CharValue[s]

(* ------------------ np.random.RandomState stand-in -------------------- *)

\* RandomState(seed): a generator of its own, its state fixed by the seed
RandomState(seed) == seed

\* r.permutation(num)[k]: a permutation of range(num) that is a function of the
\* generator's state. The multiplier ends in 7, so it is a unit modulo 100^n.
PermMult(rs) == 10 * ((rs + salt) % 200) + 7
Permutation(rs, num, k) == (PermMult(rs) * k + rs) % num

(* --------------------------- AdditionDataset -------------------------- *)

\* the generator __init__ draws the permutation from
SharedGenerator(g) == g
ConstructGenerator(g) == RandomState(RandomSeed)

block_size(n) == n + n + n + 1 - 1
num_of(n) == Square(Pow10(n))
num_test_small(num) == Min(IntOfFifth(num), 100)
num_test(num) == Min(IntOfFifth(num), TestCap)

\* perm[:num_test] if split == 'test' else perm[num_test:], as the bounds of
\* the slice of perm that self.ixes is
ixes_from_gap(split, num) == IF split = "test" THEN 0 ELSE num_test(num) + 1
ixes_from(split, num) == IF split = "test" THEN 0 ELSE num_test(num)
ixes_to(split, num) == IF split = "test" THEN num_test(num) ELSE num

\* the object __init__ leaves behind
NewDataset(n, split, g) ==
    [ split      |-> split,
      ndigit     |-> n,
      vocab_size |-> vocab_size,
      block_size |-> block_size(n),
      rs         |-> ConstructGenerator(g),
      num        |-> num_of(n),
      from       |-> ixes_from(split, num_of(n)),
      to         |-> ixes_to(split, num_of(n)) ]

\* self.ixes.size and self.ixes[p] for a 0-based place p
size(d) == d.to - d.from
ixes(d, p) == Permutation(d.rs, d.num, d.from + p)

\* the body of __getitem__ once self.ixes[idx] has been read
a_wide(idx, nd) == idx \div (nd * 10)
a_of(idx, nd) == idx \div nd
b_of(idx, nd) == idx % nd
c_wrapped(idx, nd) == (a_of(idx, nd) + b_of(idx, nd)) % nd
c_of(idx, nd) == a_of(idx, nd) + b_of(idx, nd)
render_short(n, a, b, c) ==
    FormatZeroPadded(n, a) \o FormatZeroPadded(n, b)
        \o FormatZeroPadded(n, c)
render(n, a, b, c) ==
    FormatZeroPadded(n, a) \o FormatZeroPadded(n, b)
        \o FormatZeroPadded(n + 1, c)
dix(n, idx) ==
    LET nd == Pow10(n)
        r  == render(n, a_of(idx, nd), b_of(idx, nd), c_of(idx, nd))
    IN  [j \in 1..Len(r) |-> IntOfChar(r[j])]
x_of(dx) == PySlice(dx, 0, 0 - 1)
mask_end_long(n, len) == SliceBound(n * 2, len)
mask_end(n, len) == SliceBound(n * 2 - 1, len)
y_of(n, dx) ==
    LET t == PySlice(dx, 1, Len(dx))
        m == mask_end(n, Len(t))
    IN  [j \in 1..Len(t) |-> IF j <= m THEN IgnoreIndex ELSE t[j]]

\* the pair __getitem__ returns for the universe index idx
item(n, idx) ==
    LET dx == dix(n, idx)
    IN  [x |-> x_of(dx), y |-> y_of(n, dx)]

(* ------------------------------ actions ------------------------------- *)

NoReturn ==
    [op |-> "none", ds |-> 0, arg |-> 0, err |-> "none", len |-> 0,
     x |-> <<>>, y |-> <<>>]

Init ==
    /\ salt \in 0..MaxSalt
    /\ gstate = 0      \* not yet seeded by the notebook
    /\ datasets = <<>>
    /\ ret = NoReturn

\* set_seed(42)
SetSeed ==
    /\ gstate' = GlobalSeed
    /\ ret' = [NoReturn EXCEPT !.op = "set_seed", !.arg = GlobalSeed]
    /\ UNCHANGED <<salt, datasets>>

\* AdditionDataset(n, split), with room for at most `room` objects
Construct(n, split, room) ==
    /\ Len(datasets) < room
    /\ IF num_of(n) = Fractional
       THEN /\ ret' = [NoReturn EXCEPT !.op = "init", !.arg = n,
                                       !.err = "permutation"]
            /\ UNCHANGED datasets
       ELSE /\ datasets' = Append(datasets, NewDataset(n, split, gstate))
            /\ ret' = [NoReturn EXCEPT !.op = "init", !.arg = n,
                                       !.ds = Len(datasets) + 1]
    /\ UNCHANGED <<salt, gstate>>

\* len(datasets[i])
LenQuery(i) ==
    /\ i \in 1..Len(datasets)
    /\ ret' = [NoReturn EXCEPT !.op = "len", !.ds = i,
                               !.len = size(datasets[i])]
    /\ UNCHANGED <<salt, gstate, datasets>>

\* datasets[i][k]
GetItem(i, k) ==
    /\ i \in 1..Len(datasets)
    /\ LET d == datasets[i]
           p == ArrayPlace(k, size(d))
       IN  ret' = IF p < 0
                  THEN [NoReturn EXCEPT !.op = "getitem", !.ds = i, !.arg = k,
                                        !.err = "IndexError"]
                  ELSE LET xy == item(d.ndigit, ixes(d, p))
                       IN  [NoReturn EXCEPT !.op = "getitem", !.ds = i,
                                            !.arg = k, !.x = xy.x, !.y = xy.y]
    /\ UNCHANGED <<salt, gstate, datasets>>

\* the positions a session probes: both ends, one past each, and the negatives
ProbePositions(d) ==
    {0 - size(d) - 1, 0 - size(d), 0 - 1, 0, size(d)}

Next ==
    \/ SetSeed
    \/ \E n \in DigitWidths, s \in Splits : Construct(n, s, MaxDatasets)
    \/ \E i \in 1..Len(datasets) : LenQuery(i)
    \/ \E i \in 1..Len(datasets) :
          \E k \in ProbePositions(datasets[i]) : GetItem(i, k)

Spec == Init /\ [][Next]_vars

\* the cells that seed and construct, run in any order
NextSeed ==
    \/ SetSeed
    \/ \E n \in DigitWidths, s \in Splits : Construct(n, s, MaxDatasets)

SpecSeed == Init /\ [][NextSeed]_vars

\* one notebook cell: a train and a test dataset, and their sizes
NextSplit ==
    \/ \E n \in DigitWidths, s \in Splits : Construct(n, s, Cardinality(Splits))
    \/ \E i \in 1..Len(datasets) : LenQuery(i)

SpecSplit == Init /\ [][NextSplit]_vars

\* one dataset and one query of it, at any position in range
NextItem ==
    \/ \E n \in DigitWidths, s \in Splits : Construct(n, s, 1)
    \/ \E i \in 1..Len(datasets) :
          /\ ret.op = "init"
          /\ \E k \in 0..(size(datasets[i]) - 1) : GetItem(i, k)

SpecItem == Init /\ [][NextItem]_vars

(* ------------------------- reading the state -------------------------- *)

\* the last call was an item query that returned a pair
IsItem == ret.op = "getitem" /\ ret.err = "none"
RetDataset == datasets[ret.ds]
RetWidth == RetDataset.ndigit
\* the universe index the last item query read
RetIndex == ixes(RetDataset, ArrayPlace(ret.arg, size(RetDataset)))

\* the decimal number a token sequence spells
RECURSIVE Number(_)
Number(t) ==
    IF t = <<>> THEN 0 ELSE 10 * Number(SubSeq(t, 1, Len(t) - 1)) + t[Len(t)]

\* the operand prefix of an input x
OperandA(x, n) == Number(SubSeq(x, 1, n))
OperandB(x, n) == Number(SubSeq(x, n + 1, 2 * n))

\* the set of universe indices a dataset stores
IndexSet(d) == {ixes(d, p) : p \in 0..(size(d) - 1)}

\* the dataset of the other split, same width, as the constructor makes it
Sibling(d) ==
    NewDataset(d.ndigit, IF d.split = "test" THEN "train" ELSE "test", gstate)

(* ------------------------------- claims ------------------------------- *)

\* C1: a train and a test dataset of the same width n >= 1 store disjoint
\* index sequences without repeats that together are exactly [0, 100^n), so
\* their sizes add up to 100^n.
SplitsPartitionUniverse ==
    \A i, j \in 1..Len(datasets) :
        LET tr == datasets[i]
            te == datasets[j]
        IN  (tr.split = "train" /\ te.split = "test"
                /\ tr.ndigit = te.ndigit /\ tr.ndigit >= 1)
            => /\ IndexSet(tr) \cap IndexSet(te) = {}
               /\ IndexSet(tr) \cup IndexSet(te) = 0..(100 ^ tr.ndigit - 1)
               /\ Cardinality(IndexSet(tr)) = size(tr)
               /\ Cardinality(IndexSet(te)) = size(te)
               /\ size(tr) + size(te) = 100 ^ tr.ndigit

SplitsPartitionUniverse_witness ==
    /\ Len(datasets) = 2
    /\ datasets[1].split = "test" /\ datasets[2].split = "train"
    /\ datasets[1].ndigit = 2 /\ datasets[2].ndigit = 2
    /\ ret.op = "len" /\ ret.len = 9000

\* C2: len() of a test split is min(floor(0.2 * 100^n), 1000): 20 for n = 1
\* (and 80 for the train split), 1000 for n >= 2.
TestSizeIsFifthCapped ==
    ret.op = "len" =>
        LET n == RetWidth
        IN  /\ RetDataset.split = "test"
                => ret.len = Min((100 ^ n) \div 5, 1000)
            /\ (n = 1 /\ RetDataset.split = "test") => ret.len = 20
            /\ (n = 1 /\ RetDataset.split = "train") => ret.len = 80
            /\ (n >= 2 /\ RetDataset.split = "test") => ret.len = 1000

TestSizeIsFifthCapped_witness ==
    /\ ret.op = "len" /\ RetDataset.split = "test"
    /\ RetWidth = 2 /\ ret.len = 1000

\* C3: two datasets of one session with the same width and split hold the same
\* universe index at every position, whatever was constructed or seeded
\* before or between them.
SameArgumentsSameIndices ==
    \A i, j \in 1..Len(datasets) :
        (i < j /\ datasets[i].ndigit = datasets[j].ndigit
               /\ datasets[i].split = datasets[j].split)
        => /\ size(datasets[i]) = size(datasets[j])
           /\ \A p \in 0..(size(datasets[i]) - 1) :
                  ixes(datasets[i], p) = ixes(datasets[j], p)

SameArgumentsSameIndices_witness ==
    /\ Len(datasets) = 3
    /\ gstate = GlobalSeed
    /\ datasets[1].split = "train" /\ datasets[1].ndigit = 2
    /\ datasets[2].split = "test" /\ datasets[2].ndigit = 1
    /\ datasets[3] = datasets[1]

\* C4 as stated: for n = 2, index 8550 gives x = [8,5,5,0,1,3] and
\* y = [-,-,-,0,1,3,5]; index 639 gives x = [0,6,3,9,0,4] and y = [-,-,-,9,0,4,5].
ExamplesAsStated ==
    (IsItem /\ RetWidth = 2) =>
        /\ RetIndex = 8550 =>
              /\ ret.x = <<8, 5, 5, 0, 1, 3>>
              /\ ret.y = <<IgnoreIndex, IgnoreIndex, IgnoreIndex, 0, 1, 3, 5>>
        /\ RetIndex = 639 =>
              /\ ret.x = <<0, 6, 3, 9, 0, 4>>
              /\ ret.y = <<IgnoreIndex, IgnoreIndex, IgnoreIndex, 9, 0, 4, 5>>

\* C4 amended: for n = 2, index 8550 (85 + 50 = 135, rendered 8,5,5,0,1,3,5) gives
\* x = [8,5,5,0,1,3] and y = [-,-,-,1,3,5]; index 639 (6 + 39 = 45, rendered
\* 0,6,3,9,0,4,5) gives x = [0,6,3,9,0,4] and y = [-,-,-,0,4,5]: y has 3n = 6
\* entries, the three masked ones followed by the digits of the sum only.
ExamplesAsComputed ==
    (IsItem /\ RetWidth = 2) =>
        /\ RetIndex = 8550 =>
              /\ ret.x = <<8, 5, 5, 0, 1, 3>>
              /\ ret.y = <<IgnoreIndex, IgnoreIndex, IgnoreIndex, 1, 3, 5>>
              /\ Append(ret.x, ret.y[6]) = <<8, 5, 5, 0, 1, 3, 5>>
        /\ RetIndex = 639 =>
              /\ ret.x = <<0, 6, 3, 9, 0, 4>>
              /\ ret.y = <<IgnoreIndex, IgnoreIndex, IgnoreIndex, 0, 4, 5>>
              /\ Append(ret.x, ret.y[6]) = <<0, 6, 3, 9, 0, 4, 5>>

ExamplesAsComputed_witness ==
    IsItem /\ RetWidth = 2 /\ RetIndex = 639 /\ ret.x = <<0, 6, 3, 9, 0, 4>>

\* C5: for n >= 1 the target y holds the ignore sentinel at its first 2n-1
\* positions and nowhere else, and its other n+1 positions are the digits of
\* c = a + b zero-padded to n+1.
MaskCoversOperandsOnly ==
    (IsItem /\ RetWidth >= 1) =>
        LET n == RetWidth
            c == (RetIndex \div 10 ^ n) + (RetIndex % 10 ^ n)
        IN  /\ \A j \in 1..Len(ret.y) :
                   (ret.y[j] = IgnoreIndex) <=> (j <= 2 * n - 1)
            /\ Len(ret.y) - (2 * n - 1) = n + 1
            /\ \A j \in 1..(n + 1) :
                   ret.y[2 * n - 1 + j] = (c \div 10 ^ (n + 1 - j)) % 10

MaskCoversOperandsOnly_witness ==
    /\ IsItem /\ RetWidth = 1
    /\ ret.y = <<IgnoreIndex, 1, 8>>

\* C6: for n >= 1 the number spelled by the first n tokens of x plus the number
\* spelled by the next n tokens equals the number spelled by the last n+1
\* tokens of y, with a carry into the (n+1)-th digit and with leading zeros.
OperandsSumToAnswer ==
    (IsItem /\ RetWidth >= 1) =>
        LET n == RetWidth
        IN  OperandA(ret.x, n) + OperandB(ret.x, n)
                = Number(SubSeq(ret.y, Len(ret.y) - n, Len(ret.y)))

OperandsSumToAnswer_witness ==
    /\ IsItem /\ RetWidth = 2
    /\ OperandA(ret.x, 2) = 85 /\ OperandB(ret.x, 2) = 50
    /\ SubSeq(ret.y, 4, 6) = <<1, 3, 5>>

\* C7 as stated: the item query returns a pair exactly for 0 <= k < size and
\* fails for every other integer k.
ItemFailsOutsideZeroToSize ==
    ret.op = "getitem" =>
        (ret.err = "none" <=> (0 <= ret.arg /\ ret.arg < size(RetDataset)))

\* C7 amended: the item query fails with an IndexError, returning no pair,
\* exactly for k >= size and k < -size; for -size <= k < 0 it returns the item
\* at position size + k.
ItemFailsOutsideWrappedRange ==
    ret.op = "getitem" =>
        LET d == RetDataset
            k == ret.arg
        IN  /\ (ret.err = "IndexError") <=> (k >= size(d) \/ k < 0 - size(d))
            /\ (ret.err = "none") <=> (0 - size(d) <= k /\ k < size(d))
            /\ ret.err # "none" => (ret.x = <<>> /\ ret.y = <<>>)
            /\ (0 - size(d) <= k /\ k < 0) =>
                  /\ ret.x = item(d.ndigit, ixes(d, size(d) + k)).x
                  /\ ret.y = item(d.ndigit, ixes(d, size(d) + k)).y
            /\ (0 <= k /\ k < size(d)) =>
                  /\ ret.x = item(d.ndigit, ixes(d, k)).x
                  /\ ret.y = item(d.ndigit, ixes(d, k)).y

ItemFailsOutsideWrappedRange_witness ==
    /\ ret.op = "getitem" /\ ret.arg = 0 - 1 /\ ret.err = "none"
    /\ RetWidth = 2 /\ Len(ret.x) = 6

\* C8 as stated: constructing with a width n < 1 fails and leaves no dataset
\* of such a width.
ConstructRejectsWidthBelowOne ==
    /\ (ret.op = "init" /\ ret.arg < 1) => (ret.err # "none" /\ ret.ds = 0)
    /\ \A i \in 1..Len(datasets) : datasets[i].ndigit >= 1

\* C8 amended: constructing fails, leaving no dataset, exactly for n < 0;
\* n = 0 constructs a dataset over a universe of one index, whose test split
\* is empty and whose train split has the single item x = [0,0], y = [-,0],
\* with block_size 0.
ConstructRejectsNegativeWidthOnly ==
    /\ ret.op = "init" => ((ret.err # "none") <=> (ret.arg < 0))
    /\ (ret.op = "init" /\ ret.err # "none") => ret.ds = 0
    /\ (ret.op = "init" /\ ret.err = "none") =>
          /\ ret.ds = Len(datasets)
          /\ RetDataset.ndigit = ret.arg
    /\ \A i \in 1..Len(datasets) :
          /\ datasets[i].ndigit >= 0
          /\ datasets[i].ndigit = 0 =>
                /\ datasets[i].block_size = 0
                /\ size(datasets[i]) = IF datasets[i].split = "train" THEN 1 ELSE 0
    /\ (IsItem /\ RetWidth = 0) =>
          (ret.x = <<0, 0>> /\ ret.y = <<IgnoreIndex, 0>>)

ConstructRejectsNegativeWidthOnly_witness ==
    /\ ret.op = "init" /\ ret.arg = 0 /\ ret.err = "none"
    /\ RetDataset.split = "train" /\ size(RetDataset) = 1

\* C9: for n >= 1, x and y have length 3n = block_size, every token of x and
\* every unmasked token of y is a digit below vocab_size, and c = a + b is
\* below 10^(n+1).
ItemFitsBlockAndVocabulary ==
    (IsItem /\ RetWidth >= 1) =>
        LET n == RetWidth
        IN  /\ Len(ret.x) = 3 * n /\ Len(ret.y) = 3 * n
            /\ RetDataset.block_size = 3 * n
            /\ RetDataset.vocab_size = 10
            /\ \A j \in 1..Len(ret.x) :
                   ret.x[j] >= 0 /\ ret.x[j] < RetDataset.vocab_size
            /\ \A j \in 1..Len(ret.y) :
                   ret.y[j] # IgnoreIndex =>
                       (ret.y[j] >= 0 /\ ret.y[j] < RetDataset.vocab_size)
            /\ (RetIndex \div 10 ^ n) + (RetIndex % 10 ^ n) < 10 ^ (n + 1)

ItemFitsBlockAndVocabulary_witness ==
    /\ IsItem /\ RetWidth = 2
    /\ ret.x = <<9, 9, 9, 9, 1, 9>>
    /\ ret.y = <<IgnoreIndex, IgnoreIndex, IgnoreIndex, 1, 9, 8>>

\* C10: for n >= 1 the operands (a, b) an item shows lie in [0,10^n) x [0,10^n)
\* and a * 10^n + b is the universe index read, so the decoding has an inverse;
\* the items at other positions of the same split and at the positions of the
\* other split show other operands.
DifferentOperands(d, p) ==
    (0 <= p /\ p < size(d)) =>
        LET n == d.ndigit
            other == item(n, ixes(d, p)).x
        IN  <<OperandA(other, n), OperandB(other, n)>>
                # <<OperandA(ret.x, n), OperandB(ret.x, n)>>

DecodingIsBijective ==
    (IsItem /\ RetWidth >= 1) =>
        LET n == RetWidth
            d == RetDataset
            k == ret.arg
        IN  /\ RetIndex \in 0..(100 ^ n - 1)
            /\ OperandA(ret.x, n) \in 0..(10 ^ n - 1)
            /\ OperandB(ret.x, n) \in 0..(10 ^ n - 1)
            /\ OperandA(ret.x, n) * 10 ^ n + OperandB(ret.x, n) = RetIndex
            /\ \A p \in {0, k - 1, k + 1, size(d) - 1} \ {k} :
                   DifferentOperands(d, p)
            /\ \A p \in {0, k - 1, k, k + 1, size(Sibling(d)) - 1} :
                   DifferentOperands(Sibling(d), p)

DecodingIsBijective_witness ==
    /\ IsItem /\ RetWidth = 2 /\ ret.arg > 0
    /\ OperandA(ret.x, 2) = 0 /\ OperandB(ret.x, 2) = 99

====
